---- MODULE Spec2Model ----
(***************************************************************************)
(* vgo2discord (main.go): microphone capture -> classification -> Opus     *)
(* encoding -> Discord voice connection.                                   *)
(*                                                                         *)
(* Processes of the program:                                               *)
(*   main            start-up, wait for the interrupt, deferred shutdown   *)
(*   capture         the goroutine started by Audio.Open (the read loop)   *)
(*   logger          the goroutine ranging over errCh                      *)
(*   speaking        one goroutine per `go discord.Speaking(false)`        *)
(*   environment     the voice library: its sender draining OpusSend, the  *)
(*                   Ready flag it maintains                               *)
(*                                                                         *)
(* Two specifications share the definitions of the methods:                *)
(*   Spec         the program as main() runs it                            *)
(*   SessionSpec  the Discord type driven by an arbitrary caller           *)
(***************************************************************************)
EXTENDS Integers, Sequences, FiniteSets, TLC

\* ------------------------------------------------------------------ bounds
MaxReads == 2        \* stream.Read calls of one run of the capture loop
FrameLen == 2        \* samples of a frame (960*2 in the program)
OpusSendCap == 1     \* buffer of the library's OpusSend channel
MaxCalls == 3        \* method calls of the caller in SessionSpec

\* sample values below -1, within [-1, 1] and above 1
SampleValues == {-32768, 1, 2}
Frames == [1..FrameLen -> SampleValues]
ZeroFrame == [i \in 1..FrameLen |-> 0]

VARIABLES
    proc,        \* "running" | "exited" | "panic" | "crash"
    mpc,         \* main: the statement it is at
    defers,      \* main: stack of deferred calls, head runs first
    oplog,       \* entries written with log.Error, in order
    steps,       \* names of the deferred calls run so far, in order
    lastRet,     \* what the deferred call run last returned
    session,     \* discord.session: "none" | "open" | "closed"
    voice,       \* discord.voice: "nil" | "conn"
    Ready,       \* voice.Ready
    OpusSend,    \* voice.OpusSend: "nil" | "chan"
    queue,       \* frames buffered in the OpusSend channel
    stalled,     \* the library's sender has stopped taking frames for good
    left,        \* number of voice.Disconnect calls
    wire,        \* what reached the session: <<"voice", id>>, <<"speaking", id, b>>
    paInit,      \* portaudio initialised
    stream,      \* audio.stream: "none" | "started" | "stopped" | "closed"
    libCalls,    \* the release calls the last shutdown call made: <<call, succeeded>>
    cpc,         \* capture goroutine: the statement it is at
    cerr,        \* the error the capture goroutine is sending on errCh
    in,          \* the capture buffer
    speaked,     \* the local of the same name
    opus,        \* id of the frame held encoded (0: none)
    opusEncoder, \* the encoder held: the number of the instance, 0 for none
    encCalls,    \* the gopus calls made: <<"gopus.NewEncoder", ok>>, <<"Encode", instance>>
    spk,         \* speaking goroutines started and not yet run (by frame id)
    sendRet,     \* what the last SendVoice call returned ("none" before any)
    spkRet,      \* what the last Speaking call returned ("none" before any)
    hist,        \* outcome of every stream.Read: a label or an error
    encoded,     \* ids of the frames passed to Encode, in order
    handed,      \* ids of the frames passed to SendVoice, in order
    dispatched,  \* <<id, b>> of every `go discord.Speaking(b)`
    dropped,     \* <<id, why>> of the frames not handed on: "skipped", "abandoned"
    errChClosed, \* close(errCh) has run
    lpc,         \* logger goroutine: "recv" | "log" | "done"
    lerr,        \* the error the logger holds
    sink         \* errors received from errCh, in order

mainVars == <<mpc, defers, oplog, steps, lastRet>>
sessVars == <<session, voice, Ready, OpusSend, queue, stalled, left, wire>>
audioVars == <<paInit, stream, libCalls>>
capVars == <<cpc, cerr, in, speaked, opus, opusEncoder, encCalls, spk, sendRet,
             spkRet>>
histVars == <<hist, encoded, handed, dispatched, dropped>>
logVars == <<errChClosed, lpc, lerr, sink>>
vars == <<proc, mainVars, sessVars, audioVars, capVars, histVars, logVars>>

\* ------------------------------------------------------------- initial state
\* main at line 196: errCh made, close(errCh) deferred, the logger started.
InitCommon ==
    /\ proc = "running"
    /\ oplog = <<>> /\ steps = <<>> /\ lastRet = "nil"
    /\ voice = "nil" /\ Ready = FALSE /\ OpusSend = "nil"
    /\ queue = <<>> /\ stalled = FALSE /\ left = 0 /\ wire = <<>>
    /\ paInit = FALSE /\ stream = "none" /\ libCalls = <<>>
    /\ cerr = "none" /\ in = ZeroFrame /\ speaked = TRUE /\ opus = 0
    /\ opusEncoder = 0 /\ encCalls = <<>>
    /\ spk = {} /\ sendRet = "none" /\ spkRet = "none"
    /\ hist = <<>> /\ encoded = <<>> /\ handed = <<>> /\ dispatched = <<>>
    /\ dropped = <<>>
    /\ errChClosed = FALSE /\ lpc = "recv" /\ lerr = "none" /\ sink = <<>>

Init ==
    /\ InitCommon
    /\ mpc = "InitProcess" /\ defers = <<"close(errCh)">>
    /\ session = "none" /\ cpc = "none"

Push(d) == defers' = <<d>> \o defers

\* log.Error(...) followed by return, in main
Fail(msg) == /\ oplog' = Append(oplog, msg)
             /\ mpc' = "return"
             /\ UNCHANGED <<defers, steps, lastRet>>

\* ------------------------------------------------------- main: start-up
MainInitProcess ==
    /\ proc = "running" /\ mpc = "InitProcess"
    /\ \E ok \in BOOLEAN :
         IF ok THEN mpc' = "Load" /\ UNCHANGED <<defers, oplog, steps, lastRet>>
               ELSE Fail("failed to init process")
    /\ UNCHANGED <<proc, sessVars, audioVars, capVars, histVars, logVars>>

MainLoad ==
    /\ proc = "running" /\ mpc = "Load"
    /\ \E ok \in BOOLEAN :
         IF ok THEN mpc' = "discord.Start" /\ UNCHANGED <<defers, oplog, steps, lastRet>>
               ELSE Fail("failed to load config")
    /\ UNCHANGED <<proc, sessVars, audioVars, capVars, histVars, logVars>>

\* Discord.Start: discordgo.New, then session.Open; a session that fails to
\* open is closed and not kept.
DiscordStart(newOk, openOk) ==
    session' = IF newOk /\ openOk THEN "open" ELSE session

MainDiscordStart ==
    /\ proc = "running" /\ mpc = "discord.Start"
    /\ \E newOk, openOk \in BOOLEAN :
         /\ DiscordStart(newOk, openOk)
         /\ IF newOk /\ openOk
              THEN /\ Push("discord.Stop") /\ mpc' = "JoinVoiceChannel"
                   /\ UNCHANGED <<oplog, steps, lastRet>>
              ELSE Fail("failed to start discord client")
    /\ UNCHANGED <<proc, voice, Ready, OpusSend, queue, stalled, left, wire,
                   audioVars, capVars, histVars, logVars>>

\* Discord.JoinVoiceChannel: discord.voice is set only when the join
\* succeeded.  The connection the library hands back carries a Ready flag,
\* which the library goes on changing, and an OpusSend channel or none.
JoinVoiceChannel(ok, r, o) ==
    IF ok THEN voice' = "conn" /\ Ready' = r /\ OpusSend' = o
          ELSE UNCHANGED <<voice, Ready, OpusSend>>

MainJoinVoiceChannel ==
    /\ proc = "running" /\ mpc = "JoinVoiceChannel"
    /\ \E ok, r \in BOOLEAN, o \in {"nil", "chan"} :
         /\ JoinVoiceChannel(ok, r, o)
         /\ IF ok THEN /\ Push("discord.LeaveVoiceChannel") /\ mpc' = "audio.Start"
                       /\ UNCHANGED <<oplog, steps, lastRet>>
                  ELSE Fail("failed to join voice channel")
    /\ UNCHANGED <<proc, session, queue, stalled, left, wire,
                   audioVars, capVars, histVars, logVars>>

\* Audio.Start: portaudio.Initialize
AudioStart(ok) == paInit' = (paInit \/ ok)

MainAudioStart ==
    /\ proc = "running" /\ mpc = "audio.Start"
    /\ \E ok \in BOOLEAN :
         /\ AudioStart(ok)
         /\ IF ok THEN /\ Push("audio.Stop") /\ mpc' = "audio.Open"
                       /\ UNCHANGED <<oplog, steps, lastRet>>
                  ELSE Fail("failed to start audio")
    /\ UNCHANGED <<proc, sessVars, stream, libCalls, capVars, histVars, logVars>>

\* Audio.Open: open the default stream and start it; only then is the
\* capture goroutine started.  A stream that fails to start is closed.
AudioOpenAlwaysCaptures(openOk, startOk) ==
    /\ stream' = IF openOk /\ startOk THEN "started"
                 ELSE IF openOk THEN "closed" ELSE stream
    /\ cpc' = "NewEncoder"

AudioOpen(openOk, startOk) ==
    IF openOk /\ startOk
      THEN stream' = "started" /\ cpc' = "NewEncoder"
      ELSE /\ stream' = (IF openOk THEN "closed" ELSE stream)
           /\ UNCHANGED cpc

MainAudioOpen ==
    /\ proc = "running" /\ mpc = "audio.Open"
    /\ \E openOk, startOk \in BOOLEAN :
         /\ AudioOpen(openOk, startOk)
         /\ IF openOk /\ startOk
              THEN /\ Push("audio.Close") /\ mpc' = "Notify"
                   /\ UNCHANGED <<oplog, steps, lastRet>>
              ELSE Fail("failed to start audio device")
    /\ UNCHANGED <<proc, sessVars, paInit, libCalls, cerr, in, speaked, opus, opusEncoder, encCalls, spk,
                   sendRet, spkRet, histVars, logVars>>

\* lines 240-243: the stop channel, its deferred close, signal.Notify
MainNotify ==
    /\ proc = "running" /\ mpc = "Notify"
    /\ Push("close(stop)") /\ mpc' = "wait"
    /\ UNCHANGED <<proc, oplog, steps, lastRet, sessVars, audioVars, capVars, histVars,
                   logVars>>

\* <-stop: the interrupt arrives
MainInterrupt ==
    /\ proc = "running" /\ mpc = "wait"
    /\ mpc' = "return"
    /\ UNCHANGED <<proc, defers, oplog, steps, lastRet, sessVars, audioVars, capVars,
                   histVars, logVars>>

\* ------------------------------------------------------- main: shutdown
\* main returns: the deferred calls run last-in first-out; every one of them
\* runs, and what it returns is dropped.
Deferred(d) == /\ proc = "running" /\ mpc = "return"
               /\ defers # <<>> /\ Head(defers) = d

\* a variant in which a failed deferred call ends the unwinding
RanUntilError(d, err) ==
    /\ defers' = IF err = "nil" THEN Tail(defers) ELSE <<>>
    /\ steps' = Append(steps, d)
    /\ lastRet' = err
    /\ UNCHANGED <<mpc, oplog>>

Ran(d, err) == /\ defers' = Tail(defers)
               /\ steps' = Append(steps, d)
               /\ lastRet' = err
               /\ UNCHANGED <<mpc, oplog>>

DeferCloseStop ==
    /\ Deferred("close(stop)")
    /\ Ran("close(stop)", "nil") /\ libCalls' = <<>>
    /\ UNCHANGED <<proc, sessVars, paInit, stream, capVars, histVars, logVars>>

\* Audio.Close: stream.Stop, then stream.Close whether or not the stop
\* failed; the first error is the one returned.
AudioCloseRet(stopOk, closeOk) ==
    IF ~stopOk THEN "StopErr" ELSE IF ~closeOk THEN "CloseErr" ELSE "nil"

\* the calls Audio.Close makes on the stream, in order, with their outcome
AudioCloseCallsSkipRelease(stopOk, closeOk) ==
    IF stopOk THEN <<<<"stream.Stop", TRUE>>, <<"stream.Close", closeOk>>>>
              ELSE <<<<"stream.Stop", FALSE>>>>

AudioCloseCalls(stopOk, closeOk) ==
    <<<<"stream.Stop", stopOk>>, <<"stream.Close", closeOk>>>>

AudioClose(stopOk, closeOk) ==
    /\ libCalls' = AudioCloseCalls(stopOk, closeOk)
    /\ stream' = IF \E k \in DOMAIN libCalls' : libCalls'[k] = <<"stream.Close", TRUE>>
                   THEN "closed"
                 ELSE IF \E k \in DOMAIN libCalls' : libCalls'[k] = <<"stream.Stop", TRUE>>
                   THEN "stopped"
                 ELSE stream

DeferAudioClose ==
    /\ Deferred("audio.Close")
    /\ \E stopOk, closeOk \in BOOLEAN :
         /\ AudioClose(stopOk, closeOk)
         /\ Ran("audio.Close", AudioCloseRet(stopOk, closeOk))
    /\ UNCHANGED <<proc, sessVars, paInit, capVars, histVars, logVars>>

\* Audio.Stop: portaudio.Terminate, which also closes the streams left open
AudioStop(ok) ==
    /\ paInit' = (paInit /\ ~ok)
    /\ stream' = IF ok /\ stream \in {"started", "stopped"} THEN "closed" ELSE stream

DeferAudioStop ==
    /\ Deferred("audio.Stop")
    /\ \E ok \in BOOLEAN :
         /\ AudioStop(ok)
         /\ libCalls' = <<<<"portaudio.Terminate", ok>>>>
         /\ Ran("audio.Stop", IF ok THEN "nil" ELSE "TerminateErr")
    /\ UNCHANGED <<proc, sessVars, capVars, histVars, logVars>>

\* Discord.LeaveVoiceChannel: nothing to leave when discord.voice is nil;
\* otherwise voice.Disconnect, whose result is returned.  Disconnect closes
\* the connection (Ready goes false); discord.voice keeps pointing at it.
LeaveVoiceChannelRetSwallowed(ok) == "nil"

LeaveVoiceChannelRet(ok) ==
    IF voice = "nil" THEN "nil" ELSE IF ok THEN "nil" ELSE "DisconnectErr"

LeaveVoiceChannel(ok) ==
    IF voice = "nil"
      THEN /\ libCalls' = <<>>
           /\ UNCHANGED <<voice, Ready, OpusSend, left>>
      ELSE /\ libCalls' = <<<<"voice.Disconnect", ok>>>>
           /\ left' = left + 1 /\ Ready' = FALSE /\ UNCHANGED <<voice, OpusSend>>

DeferLeaveVoiceChannel ==
    /\ Deferred("discord.LeaveVoiceChannel")
    /\ \E ok \in BOOLEAN :
         /\ LeaveVoiceChannel(ok)
         /\ Ran("discord.LeaveVoiceChannel", LeaveVoiceChannelRet(ok))
    /\ UNCHANGED <<proc, session, queue, stalled, wire, paInit, stream, capVars,
                   histVars, logVars>>

\* Discord.Stop: session.Close
DiscordStop == session' = "closed"

DeferDiscordStop ==
    /\ Deferred("discord.Stop")
    /\ \E ok \in BOOLEAN :
         /\ DiscordStop
         /\ libCalls' = <<<<"session.Close", ok>>>>
         /\ Ran("discord.Stop", IF ok THEN "nil" ELSE "SessionCloseErr")
    /\ UNCHANGED <<proc, voice, Ready, OpusSend, queue, stalled, left, wire,
                   paInit, stream, capVars, histVars, logVars>>

DeferCloseErrCh ==
    /\ Deferred("close(errCh)")
    /\ errChClosed' = TRUE
    /\ Ran("close(errCh)", "nil") /\ libCalls' = <<>>
    /\ UNCHANGED <<proc, sessVars, paInit, stream, capVars, histVars, lpc, lerr, sink>>

\* main has returned: the process ends, and every goroutine with it
MainExit ==
    /\ proc = "running" /\ mpc = "return" /\ defers = <<>>
    /\ proc' = "exited"
    /\ UNCHANGED <<mainVars, sessVars, audioVars, capVars, histVars, logVars>>

\* ------------------------------------------------- the capture goroutine
\* The label of a frame, as the loop's branches are named: "Sound" is the
\* branch that skips encoding (every sample within [-1, 1]), "Silence" the
\* branch that encodes.
Label(f) == IF \A i \in 1..FrameLen : f[i] >= -1 /\ f[i] <= 1
              THEN "Sound" ELSE "Silence"

\* lines 144-150: speaking starts true and the scan stops at the first
\* sample above 1 or below -1
RECURSIVE Scan(_, _)
Scan(f, i) ==
    IF i > Len(f) THEN TRUE
    ELSE IF f[i] > 1 \/ f[i] < -1 THEN FALSE
    ELSE Scan(f, i + 1)

\* a variant of the scan that compares against the limits of int16
SpeakingFlagRangeCheck(f) ==
    ~ \E i \in DOMAIN f : f[i] > 32767 \/ f[i] < -32768

SpeakingFlag(f) == Scan(f, 1)

\* a variant that announces on every skipped frame
AnnouncesEveryFrame(speaking, s) == speaking

\* lines 151-155: the announcement is started when speaking and speaked
Announces(speaking, s) == speaking /\ s

\* lines 151-160: speaked after the iteration
SpeakedAfter(speaking, s) ==
    IF speaking THEN (IF s THEN FALSE ELSE s)
                ELSE (IF ~s THEN TRUE ELSE s)

\* variants of the branch after the report: the overflow error falls through
\* to the classification; every error returns; every error continues
AfterReportFallThrough(err) == IF err = "InputOverflowed" THEN "Classify" ELSE "done"

AfterReportAlwaysReturn(err) == "done"

AfterReportAlwaysContinue(err) == "Read"

\* after `errCh <- err`: continue for the overflow error, return otherwise
AfterReport(err) == IF err = "InputOverflowed" THEN "Read" ELSE "done"

\* a variant that ends the run when SendVoice returns false
AfterSendVoiceChecked(ret) == IF ret THEN "Read" ELSE "done"

\* after discord.SendVoice(opus): the result is dropped, the loop goes on
AfterSendVoice(ret) == "Read"

\* where a SendVoice call returns to: the capture loop, or the caller of
\* SessionSpec
ReturnTo(ret) == IF mpc = "client" THEN "idle" ELSE AfterSendVoice(ret)

\* gopus.NewEncoder gives a new instance, the (n+1)-th, or nil and an error
NewEncoder(ok, n) == IF ok THEN n + 1 ELSE 0

\* a variant that encodes every frame with an encoder of its own
EncodeInstanceFresh(enc, frame) == enc + frame

\* line 161: Encode is called on opusEncoder
EncodeInstance(enc, frame) == enc

\* gopus.NewEncoder; speaked := true; an error is sent on errCh
CaptureNewEncoder ==
    /\ proc = "running" /\ cpc = "NewEncoder"
    /\ \E ok \in BOOLEAN :
         /\ encCalls' = Append(encCalls, <<"gopus.NewEncoder", ok>>)
         /\ opusEncoder' = NewEncoder(ok, Cardinality({k \in DOMAIN encCalls :
                                 encCalls[k][1] = "gopus.NewEncoder" /\ encCalls[k][2]}))
         /\ IF ok THEN cpc' = "Read" /\ UNCHANGED cerr
                  ELSE cpc' = "errCh" /\ cerr' = "NewEncoderErr"
    /\ speaked' = TRUE
    /\ UNCHANGED <<proc, mainVars, sessVars, audioVars, in, opus, spk, sendRet,
                   spkRet, histVars, logVars>>

\* What stream.Read can return.  A started stream delivers a frame, the
\* overflow error or another error.  A stopped stream, and any stream once
\* portaudio is terminated, gives an error.  A closed stream of a library
\* still initialised is freed memory: an error, or the process dies.
ReadOutcomes ==
    IF stream = "started" THEN {"frame", "InputOverflowed", "ReadErr"}
    ELSE IF stream = "closed" /\ paInit THEN {"ReadErr", "crash"}
    ELSE {"ReadErr"}

CaptureRead ==
    /\ proc = "running" /\ cpc = "Read"
    /\ Len(hist) < MaxReads
    /\ \E out \in ReadOutcomes :
         \/ /\ out = "frame"
            /\ \E f \in Frames : in' = f /\ hist' = Append(hist, Label(f))
            /\ cpc' = "Classify"
            /\ UNCHANGED <<proc, cerr>>
         \/ /\ out \in {"InputOverflowed", "ReadErr"}
            /\ hist' = Append(hist, out)
            /\ cpc' = "errCh" /\ cerr' = out
            /\ UNCHANGED <<proc, in>>
         \/ /\ out = "crash"
            /\ proc' = "crash"
            /\ UNCHANGED <<hist, cpc, cerr, in>>
    /\ UNCHANGED <<mainVars, sessVars, audioVars, speaked, opus, opusEncoder, encCalls, spk, sendRet,
                   spkRet, encoded, handed, dispatched, dropped, logVars>>

\* lines 144-160: classify the frame; on the skip branch start the
\* announcement if one is due and go back to reading
CaptureClassify ==
    /\ proc = "running" /\ cpc = "Classify"
    /\ LET speaking == SpeakingFlag(in)
           id == Len(hist)
       IN /\ speaked' = SpeakedAfter(speaking, speaked)
          /\ IF speaking
               THEN /\ cpc' = "Read"
                    /\ dropped' = Append(dropped, <<id, "skipped">>)
                    /\ IF Announces(speaking, speaked)
                         THEN /\ spk' = spk \cup {id}
                              /\ dispatched' = Append(dispatched, <<id, FALSE>>)
                         ELSE UNCHANGED <<spk, dispatched>>
               ELSE /\ cpc' = "Encode"
                    /\ UNCHANGED <<spk, dispatched, dropped>>
    /\ UNCHANGED <<proc, mainVars, sessVars, audioVars, cerr, in, opus, opusEncoder, encCalls, sendRet,
                   spkRet, hist, encoded, handed, logVars>>

\* opusEncoder.Encode: an error is sent on errCh and ends the run
CaptureEncode ==
    /\ proc = "running" /\ cpc = "Encode"
    /\ LET id == Len(hist)
       IN /\ encoded' = Append(encoded, id)
          /\ encCalls' = Append(encCalls, <<"Encode", EncodeInstance(opusEncoder, id)>>)
          /\ \E ok \in BOOLEAN :
               IF ok THEN /\ opus' = id /\ cpc' = "SendVoice"
                          /\ UNCHANGED <<cerr, dropped>>
                     ELSE /\ cpc' = "errCh" /\ cerr' = "EncodeErr"
                          /\ dropped' = Append(dropped, <<id, "abandoned">>)
                          /\ UNCHANGED opus
    /\ UNCHANGED <<proc, mainVars, sessVars, audioVars, in, speaked, opusEncoder,
                   spk, sendRet, spkRet, hist, handed, dispatched, logVars>>

\* --------------------------------------------------------- Discord.SendVoice
\* a variant without the check of the OpusSend channel
SendVoiceAvailNoChannelCheck(v, r, o) ==
    IF v = "nil" THEN FALSE
    ELSE IF r = FALSE THEN FALSE
    ELSE TRUE

\* a variant without the check of voice.Ready
SendVoiceAvailIgnoresReady(v, r, o) ==
    IF v = "nil" THEN FALSE
    ELSE IF o = "nil" THEN FALSE
    ELSE TRUE

\* lines 80-89: the three checks
SendVoiceAvail(v, r, o) ==
    IF v = "nil" THEN FALSE
    ELSE IF r = FALSE THEN FALSE
    ELSE IF o = "nil" THEN FALSE
    ELSE TRUE

\* the call up to the channel send: return false, or go on to the send
SendVoiceEnter ==
    /\ proc = "running" /\ cpc = "SendVoice"
    /\ handed' = Append(handed, opus)
    /\ IF SendVoiceAvail(voice, Ready, OpusSend)
         THEN cpc' = "OpusSend" /\ UNCHANGED sendRet
         ELSE cpc' = ReturnTo(FALSE) /\ sendRet' = FALSE
    /\ UNCHANGED <<proc, mainVars, sessVars, audioVars, cerr, in, speaked, opus, opusEncoder, encCalls,
                   spk, spkRet, hist, encoded, dispatched, dropped, logVars>>

\* voice.OpusSend <- opus: waits for room in the channel, then return true
SendVoiceEnqueue ==
    /\ proc = "running" /\ cpc = "OpusSend"
    /\ Len(queue) < OpusSendCap
    /\ queue' = Append(queue, opus)
    /\ wire' = Append(wire, <<"voice", opus>>)
    /\ sendRet' = TRUE
    /\ cpc' = ReturnTo(TRUE)
    /\ UNCHANGED <<proc, mainVars, session, voice, Ready, OpusSend, stalled, left,
                   audioVars, cerr, in, speaked, opus, opusEncoder, encCalls, spk, spkRet, histVars,
                   logVars>>

\* ---------------------------------------------------------- Discord.Speaking
\* lines 95-101: the two checks
SpeakingAvail(v, r) ==
    IF v = "nil" THEN FALSE
    ELSE IF r = FALSE THEN FALSE
    ELSE TRUE

\* the body of Discord.Speaking(b), called for frame id
DiscordSpeaking(id, b) ==
    IF SpeakingAvail(voice, Ready)
      THEN /\ wire' = Append(wire, <<"speaking", id, b>>)
           /\ spkRet' = TRUE
      ELSE /\ spkRet' = FALSE
           /\ UNCHANGED wire

\* a goroutine started by `go discord.Speaking(false)` runs
SpeakingGo ==
    /\ proc = "running"
    /\ \E id \in spk :
         /\ DiscordSpeaking(id, FALSE)
         /\ spk' = spk \ {id}
    /\ UNCHANGED <<proc, mainVars, session, voice, Ready, OpusSend, queue, stalled,
                   left, audioVars, cpc, cerr, in, speaked, opus, opusEncoder, encCalls, sendRet,
                   histVars, logVars>>

\* ------------------------------------------------------ errCh and the logger
\* errCh is unbuffered: a send completes when the logger is at its receive
ErrChSend ==
    /\ proc = "running" /\ cpc = "errCh"
    /\ ~errChClosed /\ lpc = "recv"
    /\ sink' = Append(sink, cerr)
    /\ lerr' = cerr /\ lpc' = "log"
    /\ cpc' = AfterReport(cerr) /\ cerr' = "none"
    /\ UNCHANGED <<proc, mainVars, sessVars, audioVars, in, speaked, opus, opusEncoder, encCalls, spk,
                   sendRet, spkRet, histVars, errChClosed>>

\* a send on the closed channel panics
ErrChSendClosed ==
    /\ proc = "running" /\ cpc = "errCh"
    /\ errChClosed
    /\ proc' = "panic"
    /\ UNCHANGED <<mainVars, sessVars, audioVars, capVars, histVars, logVars>>

\* log.Error(err) in the logger
LoggerLog ==
    /\ proc = "running" /\ lpc = "log"
    /\ oplog' = Append(oplog, lerr)
    /\ lerr' = "none" /\ lpc' = "recv"
    /\ UNCHANGED <<proc, mpc, defers, steps, lastRet, sessVars, audioVars, capVars,
                   histVars, errChClosed, sink>>

\* the range loop ends when the channel is closed
LoggerEnd ==
    /\ proc = "running" /\ lpc = "recv" /\ errChClosed
    /\ lpc' = "done"
    /\ UNCHANGED <<proc, mainVars, sessVars, audioVars, capVars, histVars,
                   errChClosed, lerr, sink>>

\* ------------------------------------------------- the voice library's side
\* the library's sender takes the next frame from OpusSend
LibTake ==
    /\ proc = "running" /\ queue # <<>> /\ ~stalled
    /\ queue' = Tail(queue)
    /\ UNCHANGED <<proc, mainVars, session, voice, Ready, OpusSend, stalled, left,
                   wire, audioVars, capVars, histVars, logVars>>

\* the sender stops taking frames and never resumes (seen from the program
\* only once the channel is full)
LibStall ==
    /\ proc = "running" /\ voice = "conn" /\ ~stalled
    /\ Len(queue) = OpusSendCap
    /\ stalled' = TRUE
    /\ UNCHANGED <<proc, mainVars, session, voice, Ready, OpusSend, queue, left,
                   wire, audioVars, capVars, histVars, logVars>>

\* the library flips Ready as the connection comes and goes
LibReady ==
    /\ proc = "running" /\ voice = "conn" /\ left = 0
    /\ Ready' = ~Ready
    /\ UNCHANGED <<proc, mainVars, session, voice, OpusSend, queue, stalled, left,
                   wire, audioVars, capVars, histVars, logVars>>

\* ------------------------------------------------------------ specification
Next ==
    \/ MainInitProcess \/ MainLoad \/ MainDiscordStart \/ MainJoinVoiceChannel
    \/ MainAudioStart \/ MainAudioOpen \/ MainNotify \/ MainInterrupt
    \/ DeferCloseStop \/ DeferAudioClose \/ DeferAudioStop
    \/ DeferLeaveVoiceChannel \/ DeferDiscordStop \/ DeferCloseErrCh \/ MainExit
    \/ CaptureNewEncoder \/ CaptureRead \/ CaptureClassify \/ CaptureEncode
    \/ SendVoiceEnter \/ SendVoiceEnqueue \/ SpeakingGo
    \/ ErrChSend \/ ErrChSendClosed \/ LoggerLog \/ LoggerEnd
    \/ LibTake \/ LibStall \/ LibReady

Spec == Init /\ [][Next]_vars

\* ------------------------------------------- the Discord type on its own
\* A caller that holds a started Discord value and calls JoinVoiceChannel
\* (once), LeaveVoiceChannel, SendVoice and Speaking in any order, one call
\* at a time, while the library goes about its own business.
Calls == Len(steps) + Len(handed) + Len(dispatched)

SessionInit ==
    /\ InitCommon
    /\ mpc = "client" /\ defers = <<>>
    /\ session = "open" /\ cpc = "idle"

ClientCall == /\ proc = "running" /\ mpc = "client" /\ cpc = "idle"
              /\ Calls < MaxCalls

ClientJoinVoiceChannel ==
    /\ ClientCall
    /\ voice = "nil"
    /\ \E ok, r \in BOOLEAN, o \in {"nil", "chan"} :
         /\ JoinVoiceChannel(ok, r, o)
         /\ lastRet' = IF ok THEN "nil" ELSE "JoinErr"
    /\ steps' = Append(steps, "discord.JoinVoiceChannel")
    /\ UNCHANGED <<proc, mpc, defers, oplog, session, queue, stalled, left, wire,
                   audioVars, capVars, histVars, logVars>>

ClientLeaveVoiceChannel ==
    /\ ClientCall
    /\ \E ok \in BOOLEAN :
         /\ LeaveVoiceChannel(ok)
         /\ lastRet' = LeaveVoiceChannelRet(ok)
    /\ steps' = Append(steps, "discord.LeaveVoiceChannel")
    /\ UNCHANGED <<proc, mpc, defers, oplog, session, queue, stalled, wire,
                   paInit, stream, capVars, histVars, logVars>>

\* the caller calls SendVoice with a fresh frame
ClientSendVoice ==
    /\ ClientCall
    /\ opus' = Len(handed) + 1
    /\ cpc' = "SendVoice"
    /\ UNCHANGED <<proc, mainVars, sessVars, audioVars, cerr, in, speaked,
                   opusEncoder, encCalls, spk, sendRet, spkRet, histVars, logVars>>

ClientSpeaking ==
    /\ ClientCall
    /\ \E b \in BOOLEAN :
         /\ DiscordSpeaking(Len(dispatched) + 1, b)
         /\ dispatched' = Append(dispatched, <<Len(dispatched) + 1, b>>)
    /\ UNCHANGED <<proc, mainVars, session, voice, Ready, OpusSend, queue, stalled,
                   left, audioVars, cpc, cerr, in, speaked, opus, opusEncoder, encCalls, spk, sendRet,
                   hist, encoded, handed, dropped, logVars>>

SessionNext ==
    \/ ClientJoinVoiceChannel \/ ClientLeaveVoiceChannel
    \/ ClientSendVoice \/ ClientSpeaking
    \/ SendVoiceEnter \/ SendVoiceEnqueue
    \/ LibTake \/ LibStall \/ LibReady

SessionSpec == SessionInit /\ [][SessionNext]_vars

\* ===================================================================
\* Properties
\* ===================================================================
IsFrame(i) == hist[i] \in {"Sound", "Silence"}

Ids(seq) == {seq[k] : k \in DOMAIN seq}

DroppedIds(why) == {dropped[k][1] : k \in {j \in DOMAIN dropped : dropped[j][2] = why}}

Increasing(seq) == \A j, k \in DOMAIN seq : j < k => seq[j] < seq[k]

Count(seq, e) == Cardinality({k \in DOMAIN seq : seq[k] = e})

Pending(e) == IF cerr = e THEN 1 ELSE 0

\* the members of a set of ids, in increasing order
RECURSIVE InOrder(_)
InOrder(S) ==
    IF S = {} THEN <<>>
    ELSE LET m == CHOOSE x \in S : \A y \in S : y <= x
         IN Append(InOrder(S \ {m}), m)

\* frames read and neither skipped, handed to SendVoice nor abandoned
InFlight == {i \in 1..Len(hist) :
               /\ IsFrame(i)
               /\ i \notin Ids(handed)
               /\ i \notin DroppedIds("skipped") \cup DroppedIds("abandoned")}

\* C1: at most one frame is in flight, and it is the one read last; when the
\* loop is at stream.Read every frame read before has been skipped, handed to
\* SendVoice or abandoned; the frames handed to SendVoice are frames that were
\* read, each once, in the order they were read.
C1_OneFrameInFlight ==
    /\ InFlight \subseteq {Len(hist)}
    /\ cpc \in {"Read", "done"} => InFlight = {}
    /\ Increasing(handed)
    /\ \A k \in DOMAIN handed : handed[k] \in 1..Len(hist) /\ IsFrame(handed[k])

C1_Witness ==
    /\ Len(hist) = 2 /\ handed = <<1, 2>> /\ cpc = "Read"

FatalErrs == {"ReadErr", "EncodeErr"}

OverflowIds == {i \in 1..Len(hist) : hist[i] = "InputOverflowed"}

\* C2: every overflow error read is reported once (counting the one being
\* sent); nothing is classified, encoded, sent or announced for that
\* iteration; the report does not end the run: the loop is back at
\* stream.Read once the report is delivered, and the run is only ever over
\* after a fatal error or a failed encoder construction.
C2_OverflowContinues ==
    /\ Count(sink, "InputOverflowed") + Pending("InputOverflowed")
         = Cardinality(OverflowIds)
    /\ cerr = "InputOverflowed" => cpc = "errCh"
    /\ \A i \in OverflowIds :
         /\ i \notin Ids(encoded) \cup Ids(handed)
         /\ i \notin DroppedIds("skipped") \cup DroppedIds("abandoned")
         /\ \A k \in DOMAIN dispatched : dispatched[k][1] # i
    /\ (hist # <<>> /\ hist[Len(hist)] = "InputOverflowed" /\ cerr = "none")
         => cpc = "Read"
    /\ cpc = "done" => sink # <<>> /\ sink[Len(sink)] # "InputOverflowed"

C2_Witness ==
    /\ hist = <<"InputOverflowed", "Silence">>
    /\ sink = <<"InputOverflowed">>
    /\ handed = <<2>> /\ cpc = "Read"

\* the state part of C3: a fatal error is being sent or has been sent, once;
\* once it has been sent the run is over; a frame whose encoding failed is
\* not among the frames handed to SendVoice
C3_StoppedInv ==
    /\ \A e \in FatalErrs : cerr = e => cpc = "errCh"
    /\ Count(sink, "ReadErr") + Count(sink, "EncodeErr")
         + Pending("ReadErr") + Pending("EncodeErr") <= 1
    /\ (\E k \in DOMAIN sink : sink[k] \in FatalErrs)
         => cpc = "done" /\ sink[Len(sink)] \in FatalErrs
    /\ Count(sink, "ReadErr") + Pending("ReadErr") = Count(hist, "ReadErr")
    /\ Count(sink, "EncodeErr") + Pending("EncodeErr")
         = Cardinality(DroppedIds("abandoned"))
    /\ DroppedIds("abandoned") \cap Ids(handed) = {}

\* the frames enqueued on OpusSend so far
VoiceOnWire == SelectSeq(wire, LAMBDA e : e[1] = "voice")

\* C3: a fatal failure (a read error other than overflow, an Encode error) is
\* reported once and the run is over as soon as it is reported; once the run
\* is over nothing is read, encoded, handed to SendVoice or enqueued, and the
\* loop starts no announcement; a frame whose encoding failed is never
\* handed to SendVoice.
C3_StoppedIsTerminal ==
    /\ []C3_StoppedInv
    /\ [][cpc = "done" =>
            /\ cpc' = "done"
            /\ UNCHANGED <<hist, encoded, handed, dispatched, dropped, sink>>
            /\ VoiceOnWire' = VoiceOnWire]_vars

C3_Witness ==
    /\ cpc = "done" /\ hist = <<"Silence", "Silence">>
    /\ handed = <<1>> /\ encoded = <<1, 2>> /\ sink = <<"EncodeErr">>

\* the frames classified so far
Classified == IF cpc = "Classify" THEN Len(hist) - 1 ELSE Len(hist)

\* the frame read before frame i, 0 if there is none
PrevFrame(i) ==
    LET before == {j \in 1..(i - 1) : IsFrame(j)}
    IN IF before = {} THEN 0 ELSE CHOOSE j \in before : \A k \in before : k <= j

\* frame i is the first frame of a maximal run of Sound frames
StartsSoundRun(i) ==
    /\ hist[i] = "Sound"
    /\ PrevFrame(i) = 0 \/ hist[PrevFrame(i)] = "Silence"

RunStarts == InOrder({i \in 1..Classified : StartsSoundRun(i)})

Branched == IF cpc \in {"Classify", "Encode"} THEN Len(hist) - 1 ELSE Len(hist)

IsSilence(i) == hist[i] = "Silence"

WasHanded(i) ==
    /\ IsSilence(i)
    /\ i \notin DroppedIds("abandoned")
    /\ ~(cpc = "SendVoice" /\ i = Len(hist))

\* C5: Encode has been called once for every Silence frame and for no other,
\* in read order; SendVoice has been called once for every frame encoded
\* without error, in the same order; whatever SendVoice returned, the loop is
\* back at stream.Read after the call.
C5_EncodeSendPerSilenceFrame ==
    /\ encoded = InOrder({i \in 1..Branched : IsSilence(i)})
    /\ handed = InOrder({i \in 1..Branched : WasHanded(i)})
    /\ (hist # <<>> /\ Len(hist) \in Ids(handed)) => cpc \in {"OpusSend", "Read"}

C5_Witness ==
    /\ hist = <<"Silence", "Silence">> /\ handed = <<1, 2>>
    /\ wire = <<<<"voice", 2>>>> /\ sendRet = TRUE /\ cpc = "Read"

\* the session cannot take a frame: never joined, not Ready, no channel
Unavailable == voice = "nil" \/ Ready = FALSE \/ OpusSend = "nil"

\* C6: a SendVoice call made while the session has no voice connection, is
\* not Ready or has no OpusSend channel returns false and leaves the session
\* and its queue as they were; a call made in any other state goes on to the
\* channel send, which enqueues exactly the frame passed and returns true.
C6_SendVoiceContract ==
    [][/\ (cpc = "SendVoice" /\ cpc' # cpc) =>
            /\ UNCHANGED sessVars
            /\ IF Unavailable
                 THEN cpc' # "OpusSend" /\ sendRet' = FALSE
                 ELSE cpc' = "OpusSend"
       /\ (cpc = "OpusSend" /\ cpc' # cpc) =>
            /\ queue' = Append(queue, opus)
            /\ wire' = Append(wire, <<"voice", opus>>)
            /\ sendRet' = TRUE
            /\ UNCHANGED <<session, voice, Ready, OpusSend, left>>]_vars

C6_Witness ==
    /\ voice = "nil" /\ steps = <<>>
    /\ handed = <<1>> /\ sendRet = FALSE /\ cpc = "idle"
    /\ queue = <<>> /\ wire = <<>>

\* C7: a SendVoice call always returns, also when the consumer of the
\* outbound queue has stalled for good: the call is never waiting at the
\* channel send with the channel full and nobody left to take from it.
C7_SendVoiceAlwaysReturns ==
    ~(proc = "running" /\ cpc = "OpusSend"
        /\ Len(queue) = OpusSendCap /\ stalled)

\* C8: in every session state Speaking is available exactly when SendVoice
\* is.
C8_SameAvailability ==
    SpeakingAvail(voice, Ready) = SendVoiceAvail(voice, Ready, OpusSend)

\* C9: the capture goroutine's report of an error never waits for the
\* logger: it is never at its send on errCh while the logger is busy and
\* not at its receive.
C9_ReportNeverWaits ==
    ~(proc = "running" /\ cpc = "errCh" /\ ~errChClosed /\ lpc # "recv")

\* the deferred calls of a fully started process, in the order they run
ShutdownSteps ==
    <<"close(stop)", "audio.Close", "audio.Stop",
      "discord.LeaveVoiceChannel", "discord.Stop", "close(errCh)">>

\* C10: once a fully started process has been interrupted, the pipeline is
\* stopped first, so that stream.Read is not called again once the device
\* has been closed; the device is closed before the voice channel is left,
\* the channel is left before the session is closed, and every step still
\* runs whatever the steps before it returned.
C10_ShutdownOrder ==
    /\ [][(mpc = "return" /\ "audio.Close" \in Ids(steps)) => hist' = hist]_vars
    /\ []((mpc = "return" /\ cpc # "none") => steps \o defers = ShutdownSteps)

\* C11: an error returned by a shutdown step is surfaced: while main runs its
\* deferred calls, whatever error the call run last returned is in the log or
\* has been delivered to errCh.
C11_ShutdownErrorsSurfaced ==
    (mpc = "return" /\ lastRet # "nil") =>
        lastRet \in Ids(oplog) \cup Ids(sink)

\* C12: whenever Audio.Close was the call run last, it called stream.Stop and
\* then stream.Close, whatever stream.Stop returned, and it returned the stop
\* error if the stop failed, otherwise the close error if the close failed,
\* otherwise nil.
C12_CloseAlwaysReleases ==
    (steps # <<>> /\ steps[Len(steps)] = "audio.Close") =>
        /\ Len(libCalls) = 2
        /\ libCalls[1][1] = "stream.Stop" /\ libCalls[2][1] = "stream.Close"
        /\ lastRet = IF ~libCalls[1][2] THEN "StopErr"
                     ELSE IF ~libCalls[2][2] THEN "CloseErr"
                     ELSE "nil"

\* Audio.Close has just run, its stop failed, its close succeeded
C12_Witness ==
    /\ steps # <<>> /\ steps[Len(steps)] = "audio.Close"
    /\ libCalls = <<<<"stream.Stop", FALSE>>, <<"stream.Close", TRUE>>>>
    /\ lastRet = "StopErr" /\ stream = "closed"

\* C13: a LeaveVoiceChannel call on a session with no voice connection (never
\* joined, or the join failed) returns nil, calls no Disconnect and changes
\* nothing of the session; on a joined session it calls voice.Disconnect
\* exactly once and returns what that call returned.
C13_LeaveContract ==
    [][(steps' # steps /\ steps'[Len(steps')] = "discord.LeaveVoiceChannel") =>
          IF voice = "nil"
            THEN /\ lastRet' = "nil" /\ libCalls' = <<>>
                 /\ UNCHANGED sessVars
            ELSE /\ Len(libCalls') = 1 /\ libCalls'[1][1] = "voice.Disconnect"
                 /\ left' = left + 1
                 /\ lastRet' = IF libCalls'[1][2] THEN "nil" ELSE "DisconnectErr"]_vars

\* a join that failed, then a leave: nothing disconnected, nil returned
C13_Witness ==
    /\ steps = <<"discord.JoinVoiceChannel", "discord.LeaveVoiceChannel">>
    /\ voice = "nil" /\ left = 0 /\ libCalls = <<>> /\ lastRet = "nil"

StartupFailures ==
    <<"failed to init process", "failed to load config",
      "failed to start discord client", "failed to join voice channel",
      "failed to start audio", "failed to start audio device">>

FailedSteps == {k \in DOMAIN StartupFailures : StartupFailures[k] \in Ids(oplog)}

\* C15: when a start-up step has failed, the failure is logged once and is
\* the only thing logged, main is returning, no later start-up step has had
\* an effect or registered a deferred call, and the capture goroutine was
\* never started and never read a frame; a failure to load the
\* configuration leaves no session and no device behind.
C15_StartupAllOrNothing ==
    FailedSteps # {} =>
        LET k == CHOOSE j \in FailedSteps : TRUE
        IN /\ oplog = <<StartupFailures[k]>>
           /\ mpc = "return"
           /\ cpc = "none" /\ hist = <<>> /\ sink = <<>>
           /\ steps \o defers =
                SubSeq(ShutdownSteps, IF k <= 3 THEN 6 ELSE 9 - k, 6)
           /\ (k <= 3) => session = "none"
           /\ (k <= 4) => voice = "nil" /\ left = 0
           /\ (k <= 5) => ~paInit
           /\ (k <= 5) => stream = "none"
           /\ (k = 6) => stream \in {"none", "closed"}

\* the device failed to open or start; main logged it and ran what it had
\* deferred until then
C15_Witness ==
    /\ oplog = <<"failed to start audio device">> /\ proc = "exited"
    /\ steps = <<"audio.Stop", "discord.LeaveVoiceChannel", "discord.Stop",
                 "close(errCh)">>
    /\ cpc = "none" /\ hist = <<>>

\* C16: when the capture goroutine has returned, the process has neither
\* exited early nor panicked: until the interrupt arrives main is still
\* setting up or waiting for the signal with the stream started, the voice
\* connection joined and the session open; the goroutine is never started
\* again; and the deferred calls of the shutdown all run, in order.
C16_OnlyThePipelineStops ==
    /\ [](cpc = "done" =>
            /\ proc \in {"running", "exited"}
            /\ mpc \in {"Notify", "wait", "return"}
            /\ (mpc \in {"Notify", "wait"}) =>
                  /\ proc = "running" /\ steps = <<>>
                  /\ stream = "started" /\ paInit
                  /\ voice = "conn" /\ left = 0 /\ session = "open"
            /\ (mpc = "return") => steps \o defers = ShutdownSteps
            /\ (proc = "exited") => steps = ShutdownSteps)
    /\ [][cpc = "done" => cpc' = "done" /\ hist' = hist]_vars

\* an encoding error ended the capture goroutine; main is still waiting for
\* the signal
C16_Witness ==
    /\ cpc = "done" /\ sink = <<"EncodeErr">>
    /\ proc = "running" /\ mpc = "wait"
    /\ stream = "started" /\ voice = "conn" /\ left = 0

\* the values of the sample type, int16
Int16Min == -32768
Int16Max == 32767

\* C17 as stated: the check is false for every valid sample, so no frame is
\* ever skipped, no Speaking(false) is ever dispatched, and every frame read
\* is encoded.
C17_SkipBranchNeverTaken ==
    /\ DroppedIds("skipped") = {} /\ dispatched = <<>>
    /\ \A i \in 1..Branched : IsFrame(i) => i \in Ids(encoded)

\* C17, amended: the check compares each sample against 1 and -1.  A frame
\* of valid int16 samples takes the skip branch exactly when every sample is
\* -1, 0 or 1; any other frame read is passed to Encode and, unless Encode
\* fails, to SendVoice.
C17_SkipIffWithinOne ==
    /\ \A i \in DOMAIN in : in[i] \in Int16Min..Int16Max
    /\ (hist # <<>> /\ IsFrame(Len(hist)) /\ cpc # "Classify") =>
          LET id == Len(hist)
          IN /\ (id \in DroppedIds("skipped")) <=> (\A i \in DOMAIN in : in[i] \in -1..1)
             /\ (id \in Ids(encoded)) <=> (id \notin DroppedIds("skipped") /\ cpc # "Encode")
             /\ (id \in Ids(handed)) <=>
                   /\ id \in Ids(encoded) /\ id \notin DroppedIds("abandoned")
                   /\ cpc # "SendVoice"
    /\ \A i \in 1..Branched : IsFrame(i) =>
          (i \in DroppedIds("skipped")) <=> (hist[i] = "Sound")

\* a frame whose samples are all 1 was read and skipped, and the
\* announcement for it dispatched
C17_Witness ==
    /\ hist = <<"Sound">> /\ in = [i \in 1..FrameLen |-> 1]
    /\ dropped = <<<<1, "skipped">>>> /\ dispatched = <<<<1, FALSE>>>>
    /\ encoded = <<>> /\ cpc = "Read"

\* the calls of gopus.NewEncoder among the gopus calls made
NewEncoderCalls == {k \in DOMAIN encCalls : encCalls[k][1] = "gopus.NewEncoder"}

EncodeCalls == {k \in DOMAIN encCalls : encCalls[k][1] = "Encode"}

\* C18: gopus.NewEncoder is called once, as the first thing the capture
\* goroutine does and before any stream.Read; every Encode call of the run
\* is made on the instance that call returned; a frame is read only after
\* the construction succeeded; when it failed the error is sent on errCh,
\* once, and the goroutine returns without having read or encoded anything.
C18_OneEncoderPerRun ==
    /\ Cardinality(NewEncoderCalls) <= 1
    /\ cpc \in {"none", "NewEncoder"} => encCalls = <<>> /\ hist = <<>>
    /\ cpc \notin {"none", "NewEncoder", "idle"} => NewEncoderCalls = {1}
    /\ hist # <<>> => encCalls[1] = <<"gopus.NewEncoder", TRUE>> /\ opusEncoder = 1
    /\ Cardinality(EncodeCalls) = Len(encoded)
    /\ \A k \in EncodeCalls : encCalls[k][2] = 1 /\ encCalls[k][2] = opusEncoder
    /\ (NewEncoderCalls # {} /\ ~encCalls[1][2]) =>
          /\ encCalls = <<<<"gopus.NewEncoder", FALSE>>>> /\ opusEncoder = 0
          /\ hist = <<>> /\ encoded = <<>>
          /\ cpc \in {"errCh", "done"}
          /\ Count(sink, "NewEncoderErr") + Pending("NewEncoderErr") = 1
    /\ (Count(sink, "NewEncoderErr") + Pending("NewEncoderErr") > 0) =>
          NewEncoderCalls # {} /\ ~encCalls[1][2]

\* two frames encoded in one run, both by the one encoder constructed
C18_Witness ==
    /\ encCalls = <<<<"gopus.NewEncoder", TRUE>>, <<"Encode", 1>>, <<"Encode", 1>>>>
    /\ encoded = <<1, 2>> /\ opusEncoder = 1

\* C19: the capture goroutine never sends on errCh once main has closed it:
\* the process never panics on a send on the closed channel.
C19_NoSendOnClosedErrCh ==
    proc # "panic"

\* C20: the Speaking(false) dispatched for a skipped frame reaches the
\* session before any frame read later is enqueued: on the wire no
\* announcement follows a voice frame read after the frame it was
\* dispatched for.
C20_AnnouncementBeforeNextFrame ==
    \A j, k \in DOMAIN wire :
        (j < k /\ wire[j][1] = "voice" /\ wire[k][1] = "speaking")
            => wire[k][2] > wire[j][2]

====
